---- MODULE Spec2Model ----
(***************************************************************************)
(* SuperKarmaBot (src/bot.py, src/config.py): the karma ledger kept in a   *)
(* SQLite database behind one shared aiosqlite connection, the in-memory   *)
(* cooldown map, the leveling function and the command handlers.           *)
(*                                                                         *)
(* Every handler is an asyncio task.  A handler runs without interruption  *)
(* up to its next await; each awaited database call is one statement the   *)
(* connection's single worker thread executes atomically, in the order the *)
(* statements were queued.  A step of the model is therefore the code of a *)
(* handler from one await to the next, together with the statement it      *)
(* queues there.                                                           *)
(***************************************************************************)
EXTENDS Integers, Sequences, FiniteSets, TLC

VARIABLES
    karma,          \* table karma: (user_id, guild_id) -> [karma, last_updated]
    karma_history,  \* table karma_history: rows in rowid order
    kudo_boards,    \* table kudo_boards: channel_id -> [guild_id, min_karma]
    seq,            \* sqlite_sequence of karma_history (AUTOINCREMENT)
    committed,      \* the database as of the last commit: what a crash leaves
    cooldowns,      \* bot.cooldowns: user_id -> time of the last give/remove
    now,            \* the wall clock, in seconds
    task,           \* the handlers in flight
    cleanup,        \* position of the cleanup_task loop body
    response,       \* the last message a handler sent
    msgs,           \* the channel messages received: on_message's position and effects
    calls,          \* history variable: the update_karma calls whose upsert ran
    logged,         \* history variable: the history rows ever appended, by call
    nops,           \* number of commands and reaction events handled
    naux,           \* number of leaderboard queries and cleanup runs started
    nticks          \* number of clock advances

vars == <<karma, karma_history, kudo_boards, seq, committed, cooldowns, now,
          task, cleanup, response, msgs, calls, logged, nops, naux, nticks>>

----------------------------------------------------------------------------
(* Program constants *)

COOLDOWN_SECONDS == 60
LEVEL_INTERVAL == 50
\* len(KarmaEmojis.LEVELS)
NumLevels == 5
\* the least amount of app_commands.Range[int, 1, 10] in karma_give / karma_remove
MinAmount == 1
\* datetime('now', '-30 days'), in seconds
RetentionDays == 30
\* the default limit of get_history, which karma_check uses
HistoryLimit == 5
RETENTION_SECONDS == RetentionDays * 24 * 60 * 60

(* Bounds of the model *)

MaxOps == 2
MaxAux == 1
MaxTicks == 1
KarmaSpan == 260
MaxMsgs == 2

Users == {1, 2}
Guilds == {1, 2}
Channels == {1}
Handlers == {1, 2}
Amounts == {MinAmount}
SetValues == {0, 3}
Reasons == {"helped"}
SetReasons == {"None"}
Limits == {1, 2}
MinKarmas == {1}
TickSteps == {COOLDOWN_SECONDS - 1, COOLDOWN_SECONDS, RETENTION_SECONDS + 1}
MessageChannels == {1, 2}
Senders == {1}
BoardContents == {<<"+", "r", "e", "p", " ", "@", "u">>, <<"h", "i">>}
\* message contents, as sequences of characters
Contents ==
    {<<"+", "r", "e", "p", " ", "@", "u">>, <<"!", "r", "e", "p">>,
     <<"/", "r", "e", "p", "s">>, <<" ", "+", "r", "e", "p">>, <<"+", "r", "e">>,
     <<"h", "i">>}
PurgeTickSteps == {RETENTION_SECONDS, RETENTION_SECONDS + 1}
KarmaRange == (0 - KarmaSpan) .. KarmaSpan

----------------------------------------------------------------------------
(* Helpers *)

Min(a, b) == IF a <= b THEN a ELSE b

RECURSIVE SumDelta(_)
\* the sum of the delta fields of a finite set of call records
SumDelta(S) ==
    IF S = {} THEN 0
    ELSE LET c == CHOOSE x \in S : TRUE IN c.delta + SumDelta(S \ {c})

RECURSIVE SumChange(_)
\* the sum of the change column of a finite set of appended history rows
SumChange(S) ==
    IF S = {} THEN 0
    ELSE LET l == CHOOSE x \in S : TRUE IN l.row.change + SumChange(S \ {l})

RECURSIVE Perms(_)
\* all the orders in which the rows of a finite set can be returned
Perms(S) ==
    IF S = {} THEN {<<>>}
    ELSE UNION {{<<x>> \o p : p \in Perms(S \ {x})} : x \in S}

----------------------------------------------------------------------------
(* The database, as the shared connection sees it *)

\* KarmaManager.get_karma: the row of the pair, or the defaults when there is
\* none (last_updated is <<>> for None, <<t>> for a timestamp)
get_karma(user_id, guild_id) ==
    IF <<user_id, guild_id>> \in DOMAIN karma
    THEN [karma |-> karma[<<user_id, guild_id>>].karma,
          last_updated |-> <<karma[<<user_id, guild_id>>].last_updated>>]
    ELSE [karma |-> 0, last_updated |-> <<>>]

\* UpsertKarma with the conflict clause storing the new value instead of adding it
UpsertKarma_overwrite(user_id, guild_id, delta) ==
    [p \in DOMAIN karma \cup {<<user_id, guild_id>>} |->
        IF p = <<user_id, guild_id>> THEN [karma |-> delta, last_updated |-> now]
        ELSE karma[p]]

\* INSERT INTO karma ... ON CONFLICT(user_id, guild_id) DO UPDATE SET
\* karma = karma + excluded.karma, last_updated = excluded.last_updated:
\* the table after the statement
UpsertKarma(user_id, guild_id, delta) ==
    LET k == <<user_id, guild_id>>
        new == IF k \in DOMAIN karma THEN karma[k].karma + delta ELSE delta
    IN  [p \in DOMAIN karma \cup {k} |->
            IF p = k THEN [karma |-> new, last_updated |-> now] ELSE karma[p]]

\* HistoryRow logging the command's amount, not the signed delta
HistoryRow_unsigned(user_id, guild_id, delta, reason) ==
    [id |-> seq + 1, user_id |-> user_id, guild_id |-> guild_id,
     change |-> IF delta < 0 THEN 0 - delta ELSE delta, reason |-> reason,
     timestamp |-> now]

\* INSERT INTO karma_history (user_id, guild_id, change, reason): id from the
\* AUTOINCREMENT sequence, timestamp DEFAULT CURRENT_TIMESTAMP
HistoryRow(user_id, guild_id, delta, reason) ==
    [id |-> seq + 1, user_id |-> user_id, guild_id |-> guild_id,
     change |-> delta, reason |-> reason, timestamp |-> now]

\* INSERT OR REPLACE INTO kudo_boards
ReplaceBoard(channel_id, guild_id, min_karma) ==
    [c \in DOMAIN kudo_boards \cup {channel_id} |->
        IF c = channel_id THEN [guild_id |-> guild_id, min_karma |-> min_karma]
        ELSE kudo_boards[c]]

\* PurgedHistory deleting the rows at the cutoff too
PurgedHistory_inclusive ==
    SelectSeq(karma_history, LAMBDA r : ~(r.timestamp <= now - RETENTION_SECONDS))

\* DELETE FROM karma_history WHERE timestamp < datetime('now', '-30 days')
PurgedHistory ==
    SelectSeq(karma_history, LAMBDA r : ~(r.timestamp < now - RETENTION_SECONDS))

\* the connection's view of the database, which a commit makes durable
Database ==
    [karma |-> karma, karma_history |-> karma_history, kudo_boards |-> kudo_boards,
     seq |-> seq, calls |-> calls, logged |-> logged]

\* calculate_level rounding the quotient up
calculate_level_ceil(k) ==
    Min((k + LEVEL_INTERVAL - 1) \div LEVEL_INTERVAL, NumLevels - 1)

\* KarmaManager.calculate_level: Python's // is floor division, as \div is
calculate_level(k) == Min(k \div LEVEL_INTERVAL, NumLevels - 1)

\* KarmaManager.get_leaderboard: ORDER BY karma DESC LIMIT ?.  SQL leaves the
\* order of rows with equal karma open, so this is the set of the results the
\* statement may return
get_leaderboard(guild_id, limit) ==
    LET recs == {[user_id |-> p[1], karma |-> karma[p].karma] :
                    p \in {q \in DOMAIN karma : q[2] = guild_id}}
        ordered == {s \in Perms(recs) :
                    \A i \in 1 .. (Len(s) - 1) : s[i].karma >= s[i + 1].karma}
    IN  {SubSeq(s, 1, Min(limit, Len(s))) : s \in ordered}

\* the rows of karma_history that belong to a pair
HistoryOf(user_id, guild_id) ==
    {karma_history[i] : i \in {j \in DOMAIN karma_history :
                                 /\ karma_history[j].user_id = user_id
                                 /\ karma_history[j].guild_id = guild_id}}

\* HistoryEntry with the reason column left out of the SELECT
HistoryEntry_noreason(r) == [change |-> r.change, reason |-> "None", timestamp |-> r.timestamp]

\* what get_history hands back of a row: SELECT change, reason, timestamp
HistoryEntry(r) == [change |-> r.change, reason |-> r.reason, timestamp |-> r.timestamp]

\* KarmaManager.get_history: WHERE user_id = ? AND guild_id = ? ORDER BY
\* timestamp DESC LIMIT ?.  CURRENT_TIMESTAMP counts whole seconds and SQL
\* leaves the order of rows with equal timestamp open, so this is the set of
\* the results the statement may return
get_history(user_id, guild_id, limit) ==
    LET ordered == {s \in Perms(HistoryOf(user_id, guild_id)) :
                    \A i \in 1 .. (Len(s) - 1) : s[i].timestamp >= s[i + 1].timestamp}
    IN  {[i \in 1 .. Min(limit, Len(s)) |-> HistoryEntry(s[i])] : s \in ordered}

\* check_cooldown returning the elapsed time, not the remaining time
check_cooldown_elapsed(user_id) ==
    IF user_id \notin DOMAIN cooldowns THEN <<>>
    ELSE IF now - cooldowns[user_id] < COOLDOWN_SECONDS
         THEN <<now - cooldowns[user_id]>> ELSE <<>>

\* check_cooldown: <<>> for None, <<remaining>> for a timedelta
check_cooldown(user_id) ==
    IF user_id \notin DOMAIN cooldowns THEN <<>>
    ELSE LET elapsed == now - cooldowns[user_id]
         IN  IF elapsed < COOLDOWN_SECONDS
             THEN <<COOLDOWN_SECONDS - elapsed>> ELSE <<>>

\* Python truth of an Optional[timedelta]: None and timedelta(0) are false
Truthy(remaining) == remaining # <<>> /\ remaining[1] # 0

\* IsSelf with the test left out
IsSelf_missing(user_id, actor) == FALSE

\* the target of a give/remove is the invoking user (user.id == interaction.user.id)
IsSelf(user_id, actor) == user_id = actor

\* the prefixes on_message accepts in a board channel
Prefixes == {<<"+", "r", "e", "p">>, <<"!", "r", "e", "p">>, <<"/", "r", "e", "p">>}

\* str.startswith(tuple): some prefix of the tuple is an initial part of content
StartsWith(content, prefixes) ==
    \E q \in prefixes :
        /\ Len(q) <= Len(content)
        /\ \A i \in 1 .. Len(q) : content[i] = q[i]

----------------------------------------------------------------------------
(* Handlers *)

\* the record of a handler in flight; id, before, seq0 and solo are history
\* variables: the number of the operation, the stored karma before its upsert,
\* the history rows appended before it started, and (admin_set only) whether
\* no other operation has run since it started
NewTask(op, actor, user_id, guild_id, amount, reason) ==
    [op |-> op, pc |-> "start", id |-> nops + 1, actor |-> actor,
     user_id |-> user_id, guild_id |-> guild_id, amount |-> amount, delta |-> 0,
     reason |-> reason, cur |-> 0, new_karma |-> 0, before |-> 0, seq0 |-> seq,
     solo |-> (op = "set" /\ cleanup = "idle" /\ task = {})]

NoResponse ==
    [kind |-> "none", to |-> 0, karma |-> 0, level |-> 0, remaining |-> 0, rows |-> <<>>]

\* the message a step sends
Reply(kind, to, k, level, remaining, rows) ==
    response' = [kind |-> kind, to |-> to, karma |-> k, level |-> level,
                 remaining |-> remaining, rows |-> rows]

\* a new handler can start
CanStart == nops < MaxOps /\ Cardinality(task) < Cardinality(Handlers)

\* no handler and no cleanup run is in flight
Quiescent == cleanup = "idle" /\ task = {}

\* every handler in flight has now run concurrently with another operation
Disturbed(T) == {[t EXCEPT !.solo = FALSE] : t \in T}

\* handler t moves on as record r
Step(t, r) == task' = Disturbed(task \ {t}) \cup {r}

\* handler t ends
Finish(t) == task' = Disturbed(task \ {t})

\* an operation that is no handler in flight ran
Disturb == task' = Disturbed(task)

Init ==
    /\ karma = <<>>
    /\ karma_history = <<>>
    /\ kudo_boards = <<>>
    /\ seq = 0
    /\ committed = [karma |-> <<>>, karma_history |-> <<>>, kudo_boards |-> <<>>,
                    seq |-> 0, calls |-> {}, logged |-> {}]
    /\ cooldowns = <<>>
    /\ now = 0
    /\ task = {}
    /\ cleanup = "idle"
    /\ response = NoResponse
    /\ msgs = <<>>
    /\ calls = {}
    /\ logged = {}
    /\ nops = 0
    /\ naux = 0
    /\ nticks = 0

\* update_karma, up to the await of its first statement: the upsert runs and
\* RETURNING karma gives the new total
UpdateKarmaUpsert(t, delta, reason) ==
    /\ karma' = UpsertKarma(t.user_id, t.guild_id, delta)
    /\ calls' = calls \cup {[id |-> t.id, user_id |-> t.user_id,
                             guild_id |-> t.guild_id, delta |-> delta]}
    /\ Step(t, [t EXCEPT !.pc = "history", !.delta = delta, !.reason = reason,
                         !.before = get_karma(t.user_id, t.guild_id).karma,
                         !.new_karma = UpsertKarma(t.user_id, t.guild_id, delta)
                                           [<<t.user_id, t.guild_id>>].karma])

\* update_karma: the INSERT INTO karma_history runs
UpdateKarmaHistory(t) ==
    /\ t.pc = "history"
    /\ karma_history' = Append(karma_history,
            HistoryRow(t.user_id, t.guild_id, t.delta, t.reason))
    /\ seq' = seq + 1
    /\ logged' = logged \cup
            {[id |-> t.id, row |-> HistoryRow(t.user_id, t.guild_id, t.delta, t.reason)]}
    /\ Step(t, [t EXCEPT !.pc = "commit"])
    /\ response' = NoResponse
    /\ UNCHANGED <<karma, kudo_boards, committed, cooldowns, now, cleanup,
                   calls, nops, naux, nticks, msgs>>

\* update_karma / create_kudo_board: bot.db_pool.commit() runs
Commit(t) ==
    /\ t.pc = "commit"
    /\ committed' = Database
    /\ Step(t, [t EXCEPT !.pc = "return"])
    /\ response' = NoResponse
    /\ UNCHANGED <<karma, karma_history, kudo_boards, seq, cooldowns, now,
                   cleanup, calls, logged, nops, naux, nticks, msgs>>

\* karma_give / karma_remove: the target is the invoking user; the handler
\* answers and returns
SelfReject(actor) ==
    /\ Reply("self", actor, 0, 0, 0, <<>>)
    /\ Disturb
    /\ UNCHANGED <<karma, calls, cooldowns>>

\* CooldownReject recording the refused attempt as the actor's last action
CooldownReject_refresh(actor, remaining) ==
    /\ response' = [kind |-> "cooldown", to |-> actor, karma |-> 0, level |-> 0,
                    remaining |-> remaining[1], rows |-> <<>>]
    /\ task' = Disturbed(task)
    /\ cooldowns' = [u \in DOMAIN cooldowns \cup {actor} |->
                        IF u = actor THEN now ELSE cooldowns[u]]
    /\ UNCHANGED <<karma, calls>>

\* karma_give / karma_remove: check_cooldown gave a remaining time; the
\* handler answers with it and returns
CooldownReject(actor, remaining) ==
    /\ Reply("cooldown", actor, 0, 0, remaining[1], <<>>)
    /\ Disturb
    /\ UNCHANGED <<karma, calls, cooldowns>>

\* karma_give (sign = 1) and karma_remove (sign = -1), up to the first await:
\* the self-target check, the cooldown gate, and the call of update_karma
GiveOrRemove(op, sign, actor, user_id, guild_id, amount, reason) ==
    /\ CanStart
    /\ nops' = nops + 1
    /\ IF IsSelf(user_id, actor)
       THEN SelfReject(actor)
       ELSE IF Truthy(check_cooldown(actor))
       THEN CooldownReject(actor, check_cooldown(actor))
       ELSE /\ UpdateKarmaUpsert(NewTask(op, actor, user_id, guild_id, amount, reason),
                                 sign * amount, reason)
            /\ response' = NoResponse
            /\ UNCHANGED cooldowns
    /\ UNCHANGED <<karma_history, kudo_boards, seq, committed, now,
                   cleanup, logged, naux, nticks, msgs>>

karma_give(actor, user_id, guild_id, amount, reason) ==
    GiveOrRemove("give", 1, actor, user_id, guild_id, amount, reason)

karma_remove(actor, user_id, guild_id, amount, reason) ==
    GiveOrRemove("remove", -1, actor, user_id, guild_id, amount, reason)

\* bot.cooldowns[interaction.user.id] = datetime.now()
RecordCooldown(actor) ==
    [u \in DOMAIN cooldowns \cup {actor} |-> IF u = actor THEN now ELSE cooldowns[u]]

\* GiveOrRemoveReturn recording the cooldown under the target's id
GiveOrRemoveReturn_target(t) ==
    /\ t.pc = "return"
    /\ t.op \in {"give", "remove"}
    /\ cooldowns' = RecordCooldown(t.user_id)
    /\ Reply(t.op, t.actor, t.new_karma, calculate_level(t.new_karma), 0, <<>>)
    /\ Finish(t)
    /\ UNCHANGED <<karma, karma_history, kudo_boards, seq, committed, now,
                   cleanup, calls, logged, nops, naux, nticks, msgs>>

\* karma_give / karma_remove after update_karma returned: the cooldown is
\* recorded and the embed with the new total and level is sent
GiveOrRemoveReturn(t) ==
    /\ t.pc = "return"
    /\ t.op \in {"give", "remove"}
    /\ cooldowns' = RecordCooldown(t.actor)
    /\ Reply(t.op, t.actor, t.new_karma, calculate_level(t.new_karma), 0, <<>>)
    /\ Finish(t)
    /\ UNCHANGED <<karma, karma_history, kudo_boards, seq, committed, now,
                   cleanup, calls, logged, nops, naux, nticks, msgs>>

\* admin_set up to its first await: get_karma's SELECT runs
admin_set(user_id, guild_id, amount, reason) ==
    /\ CanStart
    /\ nops' = nops + 1
    /\ task' = Disturbed(task) \cup
               {[NewTask("set", 0, user_id, guild_id, amount, reason)
                    EXCEPT !.pc = "upsert", !.cur = get_karma(user_id, guild_id).karma]}
    /\ response' = NoResponse
    /\ UNCHANGED <<karma, karma_history, kudo_boards, seq, committed, cooldowns,
                   now, cleanup, calls, logged, naux, nticks, msgs>>

\* AdminSetUpdate applying the new value as the delta
AdminSetUpdate_add(t) ==
    /\ t.pc = "upsert"
    /\ UpdateKarmaUpsert(t, t.amount,
                         IF t.reason = "None" THEN "Admin adjustment" ELSE t.reason)
    /\ response' = NoResponse
    /\ UNCHANGED <<karma_history, kudo_boards, seq, committed, cooldowns, now,
                   cleanup, logged, nops, naux, nticks, msgs>>

\* admin_set: delta = amount - current["karma"], then update_karma
AdminSetUpdate(t) ==
    /\ t.pc = "upsert"
    /\ UpdateKarmaUpsert(t, t.amount - t.cur,
                         IF t.reason = "None" THEN "Admin adjustment" ELSE t.reason)
    /\ response' = NoResponse
    /\ UNCHANGED <<karma_history, kudo_boards, seq, committed, cooldowns, now,
                   cleanup, logged, nops, naux, nticks, msgs>>

\* admin_set after update_karma returned: the embed is sent
AdminSetReturn(t) ==
    /\ t.pc = "return"
    /\ t.op = "set"
    /\ Reply("set", 0, t.amount, 0, 0, <<>>)
    /\ Finish(t)
    /\ UNCHANGED <<karma, karma_history, kudo_boards, seq, committed, cooldowns,
                   now, cleanup, calls, logged, nops, naux, nticks, msgs>>

\* on_raw_reaction_add putting reactions behind the reactor's cooldown gate
on_raw_reaction_add_gated(recognized, user_id, author, guild_id) ==
    /\ CanStart
    /\ nops' = nops + 1
    /\ IF recognized /\ user_id # author /\ ~Truthy(check_cooldown(user_id))
       THEN UpdateKarmaUpsert(NewTask("react", user_id, author, guild_id, 1, "None"),
                              1, "Received reaction")
       ELSE Disturb /\ UNCHANGED <<karma, calls>>
    /\ response' = NoResponse
    /\ UNCHANGED <<karma_history, kudo_boards, seq, committed, cooldowns, now,
                   cleanup, logged, naux, nticks, msgs>>

\* on_raw_reaction_add up to update_karma's first statement: the emoji test,
\* the fetch of the message, the test of reactor against author
on_raw_reaction_add(recognized, user_id, author, guild_id) ==
    /\ CanStart
    /\ nops' = nops + 1
    /\ IF recognized /\ user_id # author
       THEN UpdateKarmaUpsert(NewTask("react", user_id, author, guild_id, 1, "None"),
                              1, "Received reaction")
       ELSE Disturb /\ UNCHANGED <<karma, calls>>
    /\ response' = NoResponse
    /\ UNCHANGED <<karma_history, kudo_boards, seq, committed, cooldowns, now,
                   cleanup, logged, naux, nticks, msgs>>

\* on_raw_reaction_add after update_karma returned: the level-up notice
ReactionReturn(t) ==
    /\ t.pc = "return"
    /\ t.op = "react"
    /\ LET new_level == calculate_level(t.new_karma)
           old_level == IF t.new_karma > 1 THEN new_level - 1 ELSE 0
       IN  IF new_level > old_level
           THEN Reply("levelup", t.user_id, t.new_karma, new_level, 0, <<>>)
           ELSE response' = NoResponse
    /\ Finish(t)
    /\ UNCHANGED <<karma, karma_history, kudo_boards, seq, committed, cooldowns,
                   now, cleanup, calls, logged, nops, naux, nticks, msgs>>

\* create_board up to its first await: create_kudo_board's INSERT OR REPLACE runs
create_board(channel_id, guild_id, min_karma) ==
    /\ CanStart
    /\ nops' = nops + 1
    /\ kudo_boards' = ReplaceBoard(channel_id, guild_id, min_karma)
    /\ task' = Disturbed(task) \cup
               {[NewTask("board", 0, 0, guild_id, min_karma, "None") EXCEPT !.pc = "commit"]}
    /\ response' = NoResponse
    /\ UNCHANGED <<karma, karma_history, seq, committed, cooldowns, now, cleanup,
                   calls, logged, naux, nticks, msgs>>

\* create_board after create_kudo_board returned: the embed is sent
CreateBoardReturn(t) ==
    /\ t.pc = "return"
    /\ t.op = "board"
    /\ Reply("board", 0, 0, 0, 0, <<>>)
    /\ Finish(t)
    /\ UNCHANGED <<karma, karma_history, kudo_boards, seq, committed, cooldowns,
                   now, cleanup, calls, logged, nops, naux, nticks, msgs>>

\* karma_leaderboard: get_leaderboard's SELECT runs and the rows are sent
\* (karma: the guild asked for, remaining: the limit asked for)
karma_leaderboard(guild_id, limit) ==
    /\ naux < MaxAux
    /\ naux' = naux + 1
    /\ \E rows \in get_leaderboard(guild_id, limit) :
            Reply("leaderboard", 0, guild_id, 0, limit, rows)
    /\ Disturb
    /\ UNCHANGED <<karma, karma_history, kudo_boards, seq, committed, cooldowns,
                   now, cleanup, calls, logged, nops, nticks, msgs>>

\* the record of a received message: board and min_karma are what the SELECT
\* on kudo_boards found for its channel (for a bot's message, which is
\* dropped before the SELECT, what it would have found); sender_karma is a
\* history variable, the karma the author had in the board's guild then
NewMessage(author_bot, author, channel_id, content, pc) ==
    [bot |-> author_bot, author |-> author, channel_id |-> channel_id,
     content |-> content, board |-> channel_id \in DOMAIN kudo_boards,
     min_karma |-> IF channel_id \in DOMAIN kudo_boards
                   THEN kudo_boards[channel_id].min_karma ELSE 0,
     sender_karma |-> IF channel_id \in DOMAIN kudo_boards
                      THEN get_karma(author, kudo_boards[channel_id].guild_id).karma
                      ELSE 0,
     pc |-> pc, deleted |-> FALSE, notice |-> "none", processed |-> FALSE]

\* on_message falling through to process_commands after an accepted board message
on_message_fallthrough(author_bot, author, channel_id, content) ==
    /\ Len(msgs) < MaxMsgs
    /\ msgs' = Append(msgs, NewMessage(author_bot, author, channel_id, content,
                    IF author_bot THEN "done"
                    ELSE IF channel_id \in DOMAIN kudo_boards
                              /\ ~StartsWith(content, Prefixes)
                         THEN "delete" ELSE "process"))
    /\ response' = NoResponse
    /\ UNCHANGED <<karma, karma_history, kudo_boards, seq, committed, cooldowns,
                   now, task, cleanup, calls, logged, nops, naux, nticks>>

\* on_message up to its second await: a bot's message is dropped; the SELECT
\* on kudo_boards runs; in a board channel a message without a prefix goes on
\* to be deleted and any other returns; without a board the message goes on
\* to process_commands
on_message(author_bot, author, channel_id, content) ==
    /\ Len(msgs) < MaxMsgs
    /\ msgs' = Append(msgs, NewMessage(author_bot, author, channel_id, content,
                    IF author_bot THEN "done"
                    ELSE IF channel_id \in DOMAIN kudo_boards
                         THEN IF ~StartsWith(content, Prefixes) THEN "delete" ELSE "done"
                         ELSE "process"))
    /\ response' = NoResponse
    /\ UNCHANGED <<karma, karma_history, kudo_boards, seq, committed, cooldowns,
                   now, task, cleanup, calls, logged, nops, naux, nticks>>

\* on_message: message.delete() has removed the message
MessageDelete(i) ==
    /\ msgs[i].pc = "delete"
    /\ msgs' = [msgs EXCEPT ![i].deleted = TRUE, ![i].pc = "notify"]
    /\ response' = NoResponse
    /\ UNCHANGED <<karma, karma_history, kudo_boards, seq, committed, cooldowns,
                   now, task, cleanup, calls, logged, nops, naux, nticks>>

\* on_message: message.author.send() is delivered, is refused
\* (discord.Forbidden, which the handler swallows) or fails otherwise (an
\* exception the handler lets through)
MessageNotify(i, outcome) ==
    /\ msgs[i].pc = "notify"
    /\ msgs' = [msgs EXCEPT ![i].notice = outcome,
                            ![i].pc = IF outcome = "failed" THEN "raised" ELSE "done"]
    /\ response' = NoResponse
    /\ UNCHANGED <<karma, karma_history, kudo_boards, seq, committed, cooldowns,
                   now, task, cleanup, calls, logged, nops, naux, nticks>>

\* on_message: bot.process_commands(message) has run
ProcessCommands(i) ==
    /\ msgs[i].pc = "process"
    /\ msgs' = [msgs EXCEPT ![i].processed = TRUE, ![i].pc = "done"]
    /\ response' = NoResponse
    /\ UNCHANGED <<karma, karma_history, kudo_boards, seq, committed, cooldowns,
                   now, task, cleanup, calls, logged, nops, naux, nticks>>

\* karma_check up to its first await: get_karma's SELECT runs for the target
\* (user or interaction.user)
karma_check(user_id, guild_id) ==
    /\ naux < MaxAux
    /\ naux' = naux + 1
    /\ task' = Disturbed(task) \cup
               {[NewTask("check", 0, user_id, guild_id, 0, "None")
                    EXCEPT !.pc = "get_history", !.id = naux + 1, !.solo = Quiescent,
                           !.cur = get_karma(user_id, guild_id).karma]}
    /\ response' = NoResponse
    /\ UNCHANGED <<karma, karma_history, kudo_boards, seq, committed, cooldowns,
                   now, cleanup, calls, logged, nops, nticks, msgs>>

\* karma_check: the level of the total read is computed, get_history's SELECT
\* runs, and the embed with total, level and recent changes is sent
CheckHistory(t) ==
    /\ t.pc = "get_history"
    /\ \E rows \in get_history(t.user_id, t.guild_id, HistoryLimit) :
            Reply("check", t.user_id, t.cur, calculate_level(t.cur), 0, rows)
    /\ Finish(t)
    /\ UNCHANGED <<karma, karma_history, kudo_boards, seq, committed, cooldowns,
                   now, cleanup, calls, logged, nops, naux, nticks, msgs>>

\* cleanup_task: the DELETE runs
CleanupDelete ==
    /\ cleanup = "idle"
    /\ naux < MaxAux
    /\ naux' = naux + 1
    /\ karma_history' = PurgedHistory
    /\ cleanup' = "commit"
    /\ Disturb
    /\ response' = NoResponse
    /\ UNCHANGED <<karma, kudo_boards, seq, committed, cooldowns, now,
                   calls, logged, nops, nticks, msgs>>

\* cleanup_task: the commit runs
CleanupCommit ==
    /\ cleanup = "commit"
    /\ committed' = Database
    /\ cleanup' = "idle"
    /\ Disturb
    /\ response' = NoResponse
    /\ UNCHANGED <<karma, karma_history, kudo_boards, seq, cooldowns, now,
                   calls, logged, nops, naux, nticks, msgs>>

\* cleanup_task: the DELETE raises a store error (sqlite3.Error).  The body
\* catches nothing and the loop has no error handler, so the exception leaves
\* the coroutine and tasks.loop ends the loop
CleanupDeleteFails ==
    /\ cleanup = "idle"
    /\ naux < MaxAux
    /\ naux' = naux + 1
    /\ cleanup' = "stopped"
    /\ Disturb
    /\ response' = NoResponse
    /\ UNCHANGED <<karma, karma_history, kudo_boards, seq, committed, cooldowns,
                   now, calls, logged, nops, nticks, msgs>>

\* cleanup_task: the commit raises a store error; the DELETE stays in the
\* connection's open transaction and the loop ends
CleanupCommitFails ==
    /\ cleanup = "commit"
    /\ cleanup' = "stopped"
    /\ Disturb
    /\ response' = NoResponse
    /\ UNCHANGED <<karma, karma_history, kudo_boards, seq, committed, cooldowns,
                   now, calls, logged, nops, naux, nticks, msgs>>

\* time passes, by d seconds, while no handler is between two awaits
Tick(d) ==
    /\ Quiescent
    /\ nticks < MaxTicks
    /\ nticks' = nticks + 1
    /\ now' = now + d
    /\ response' = NoResponse
    /\ UNCHANGED <<karma, karma_history, kudo_boards, seq, committed, cooldowns,
                   task, cleanup, calls, logged, nops, naux, msgs>>

\* the process dies and is started again: the connection's uncommitted
\* statements, the handlers in flight and the cooldown map are lost
Crash ==
    /\ karma' = committed.karma
    /\ karma_history' = committed.karma_history
    /\ kudo_boards' = committed.kudo_boards
    /\ seq' = committed.seq
    /\ calls' = committed.calls
    /\ logged' = committed.logged
    /\ cooldowns' = <<>>
    /\ task' = {}
    /\ cleanup' = "idle"
    /\ response' = NoResponse
    /\ UNCHANGED <<committed, now, nops, naux, nticks, msgs>>

Next ==
    \/ \E a \in Users, u \in Users, g \in Guilds, n \in Amounts, r \in Reasons :
          karma_give(a, u, g, n, r)
    \/ \E a \in Users, u \in Users, g \in Guilds, n \in Amounts, r \in Reasons :
          karma_remove(a, u, g, n, r)
    \/ \E t \in task : GiveOrRemoveReturn(t)
    \/ \E u \in Users, g \in Guilds, v \in SetValues, r \in SetReasons :
          admin_set(u, g, v, r)
    \/ \E t \in task : AdminSetUpdate(t)
    \/ \E t \in task : AdminSetReturn(t)
    \/ \E e \in BOOLEAN, a \in Users, u \in Users, g \in Guilds :
          on_raw_reaction_add(e, a, u, g)
    \/ \E t \in task : ReactionReturn(t)
    \/ \E c \in Channels, g \in Guilds, m \in MinKarmas : create_board(c, g, m)
    \/ \E t \in task : CreateBoardReturn(t)
    \/ \E g \in Guilds, l \in Limits : karma_leaderboard(g, l)
    \/ \E t \in task : UpdateKarmaHistory(t)
    \/ \E t \in task : Commit(t)
    \/ CleanupDelete
    \/ CleanupCommit
    \/ \E d \in TickSteps : Tick(d)

Spec == Init /\ [][Next]_vars

\* the leveling function applied to an arbitrary total
CalculateLevel(k) ==
    /\ Reply("level", 0, k, calculate_level(k), 0, <<>>)
    /\ UNCHANGED <<karma, karma_history, kudo_boards, seq, committed, cooldowns,
                   now, task, cleanup, calls, logged, nops, naux, nticks, msgs>>

LevelNext == \E k \in KarmaRange : CalculateLevel(k)

LevelSpec == Init /\ [][LevelNext]_vars

\* the operations that write or purge the ledger, and karma_check
CheckNext ==
    \/ \E a \in Users, u \in Users, g \in Guilds, n \in Amounts, r \in Reasons :
          karma_give(a, u, g, n, r)
    \/ \E a \in Users, u \in Users, g \in Guilds, n \in Amounts, r \in Reasons :
          karma_remove(a, u, g, n, r)
    \/ \E t \in task : GiveOrRemoveReturn(t)
    \/ \E u \in Users, g \in Guilds, v \in SetValues, r \in SetReasons :
          admin_set(u, g, v, r)
    \/ \E t \in task : AdminSetUpdate(t)
    \/ \E t \in task : AdminSetReturn(t)
    \/ \E e \in BOOLEAN, a \in Users, u \in Users, g \in Guilds :
          on_raw_reaction_add(e, a, u, g)
    \/ \E t \in task : ReactionReturn(t)
    \/ \E t \in task : UpdateKarmaHistory(t)
    \/ \E t \in task : Commit(t)
    \/ \E u \in Users, g \in Guilds : karma_check(u, g)
    \/ \E t \in task : CheckHistory(t)
    \/ CleanupDelete
    \/ CleanupCommit
    \/ \E d \in TickSteps : Tick(d)

CheckSpec == Init /\ [][CheckNext]_vars

\* give and remove, and the purge with its failures, over the retention window
PurgeNext ==
    \/ \E a \in Users, u \in Users, g \in Guilds, n \in Amounts, r \in Reasons :
          karma_give(a, u, g, n, r)
    \/ \E a \in Users, u \in Users, g \in Guilds, n \in Amounts, r \in Reasons :
          karma_remove(a, u, g, n, r)
    \/ \E t \in task : GiveOrRemoveReturn(t)
    \/ \E t \in task : UpdateKarmaHistory(t)
    \/ \E t \in task : Commit(t)
    \/ CleanupDelete
    \/ CleanupCommit
    \/ CleanupDeleteFails
    \/ CleanupCommitFails
    \/ \E d \in PurgeTickSteps : Tick(d)

PurgeSpec == Init /\ [][PurgeNext]_vars

\* the board commands and the messages of the channels
MessageNext ==
    \/ \E c \in Channels, g \in Guilds, m \in MinKarmas : create_board(c, g, m)
    \/ \E t \in task : Commit(t)
    \/ \E t \in task : CreateBoardReturn(t)
    \/ \E b \in BOOLEAN, a \in Senders, c \in MessageChannels, x \in Contents :
          on_message(b, a, c, x)
    \/ \E i \in DOMAIN msgs : MessageDelete(i)
    \/ \E i \in DOMAIN msgs, o \in {"sent", "refused", "failed"} : MessageNotify(i, o)
    \/ \E i \in DOMAIN msgs : ProcessCommands(i)

MessageSpec == Init /\ [][MessageNext]_vars

\* the board commands, admin set and the messages of the channels
BoardNext ==
    \/ \E c \in Channels, g \in Guilds, m \in MinKarmas : create_board(c, g, m)
    \/ \E t \in task : CreateBoardReturn(t)
    \/ \E u \in Senders, g \in Guilds, v \in SetValues, r \in SetReasons :
          admin_set(u, g, v, r)
    \/ \E t \in task : AdminSetUpdate(t)
    \/ \E t \in task : AdminSetReturn(t)
    \/ \E t \in task : UpdateKarmaHistory(t)
    \/ \E t \in task : Commit(t)
    \/ \E b \in BOOLEAN, a \in Senders, c \in Channels, x \in BoardContents :
          on_message(b, a, c, x)
    \/ \E i \in DOMAIN msgs : MessageDelete(i)
    \/ \E i \in DOMAIN msgs, o \in {"sent", "refused", "failed"} : MessageNotify(i, o)
    \/ \E i \in DOMAIN msgs : ProcessCommands(i)

BoardSpec == Init /\ [][BoardNext]_vars

CrashNext == Next \/ Crash

CrashSpec == Init /\ [][CrashNext]_vars

----------------------------------------------------------------------------
(* Properties *)

Pairs == Users \X Guilds

\* the update_karma calls made for a pair, and the history rows appended for it
CallsFor(C, p) == {c \in C : c.user_id = p[1] /\ c.guild_id = p[2]}
LoggedFor(L, p) == {l \in L : l.row.user_id = p[1] /\ l.row.guild_id = p[2]}

\* an update_karma call for the pair has run its upsert and not yet its insert
MidFlight(p) ==
    \E t \in task : t.pc = "history" /\ t.user_id = p[1] /\ t.guild_id = p[2]

\* C1: once every handler has completed, the stored karma of each (user,
\* guild) pair is the sum of the deltas of the update_karma calls made for
\* that pair, however the handlers interleaved: no update is lost, and calls
\* for other pairs leave it alone.
C1_NoLostUpdate ==
    Quiescent =>
        \A p \in Pairs : get_karma(p[1], p[2]).karma = SumDelta(CallsFor(calls, p))

\* two calls for the same pair ran interleaved (the later call logged first),
\* a call for another pair ran too... and all have completed
C1_Witness ==
    /\ Quiescent
    /\ \E p \in Pairs :
        /\ Cardinality(CallsFor(calls, p)) = 2
        /\ get_karma(p[1], p[2]).karma = 0
        /\ \E c \in CallsFor(calls, p) : c.id = 1 /\ c.delta = 1
        /\ Len(karma_history) = 2
        /\ karma_history[1].change = -1

\* C2: in every committed database state, the karma increment of an
\* update_karma call is present if and only if its history row is (stated of
\* the code as the claim has it: it fails when another handler or the cleanup
\* task commits between a call's upsert and its insert).
C2_AtomicDurable ==
    {c.id : c \in committed.calls} = {l.id : l \in committed.logged}

\* C3: whenever no update_karma call for a pair is between its upsert and its
\* insert, the pair's karma is the sum of the change values of all the history
\* rows ever appended for the pair, purged rows included.
C3_LedgerInvariant ==
    \A p \in Pairs :
        ~MidFlight(p) => get_karma(p[1], p[2]).karma = SumChange(LoggedFor(logged, p))

\* a row was appended for a pair and later purged, and the pair keeps its karma
C3_Witness ==
    /\ Quiescent
    /\ karma_history = <<>>
    /\ \E p \in Pairs : LoggedFor(logged, p) # {} /\ get_karma(p[1], p[2]).karma # 0

\* C4: calculate_level returns a level in 0 .. N-1 for every integer karma, and
\* level 0 for every zero or negative karma (stated as the claim has it: it
\* fails for negative karma, where floor division gives a negative level).
C4_LevelRange ==
    response.kind = "level" =>
        /\ response.level \in 0 .. (NumLevels - 1)
        /\ (response.karma <= 0 => response.level = 0)

\* C5: calculate_level is monotonic non-decreasing; a multiple p of
\* LEVEL_INTERVAL has the level of p + LEVEL_INTERVAL - 1; level(0) = 0;
\* level(50) = 1; and the level is N-1 = 4 from (N-1) * LEVEL_INTERVAL on.
C5_LevelShape ==
    /\ [](response.kind = "level" =>
            /\ (response.karma = 0 => response.level = 0)
            /\ (response.karma = 50 => response.level = 1)
            /\ (response.karma >= (NumLevels - 1) * LEVEL_INTERVAL =>
                    response.level = NumLevels - 1))
    /\ [][(response.kind = "level" /\ response'.kind = "level") =>
            /\ (response.karma <= response'.karma => response.level <= response'.level)
            /\ (response.karma % LEVEL_INTERVAL = 0
                /\ response'.karma = response.karma + LEVEL_INTERVAL - 1
                    => response'.level = response.level)]_vars

\* the level of 50 was computed
C5_Witness == response.kind = "level" /\ response.karma = 50 /\ response.level = 1

\* C6: a give or remove whose target is the invoking user is always answered
\* with the self-target rejection, whatever the cooldown state, and leaves the
\* karma table, the history log and the cooldown map (and the rest of the
\* database) as they were.
C6_SelfTargetRejected ==
    [][\A a \in Users, g \in Guilds, n \in Amounts, r \in Reasons :
          (karma_give(a, a, g, n, r) \/ karma_remove(a, a, g, n, r)) =>
              /\ response'.kind = "self"
              /\ response'.to = a
              /\ UNCHANGED <<karma, karma_history, kudo_boards, seq, committed,
                             cooldowns, calls, logged>>]_vars

\* a user in cooldown was refused a command on themselves
C6_Witness ==
    /\ response.kind = "self"
    /\ response.to \in DOMAIN cooldowns
    /\ now - cooldowns[response.to] < COOLDOWN_SECONDS

\* C7: when an actor whose earlier give or remove succeeded (its time was
\* recorded) gives to another user less than COOLDOWN_SECONDS after that
\* record, the give is answered with the cooldown rejection carrying the
\* positive remaining time; COOLDOWN_SECONDS or more after it, the give passes
\* the gate and applies its amount to the target.
C7_CooldownWindow ==
    [][\A a \in Users, u \in Users, g \in Guilds, n \in Amounts, r \in Reasons :
          (karma_give(a, u, g, n, r) /\ u # a /\ a \in DOMAIN cooldowns) =>
              IF now - cooldowns[a] < COOLDOWN_SECONDS
              THEN /\ response'.kind = "cooldown"
                   /\ response'.to = a
                   /\ response'.remaining = COOLDOWN_SECONDS - (now - cooldowns[a])
                   /\ response'.remaining > 0
              ELSE /\ response'.kind = "none"
                   /\ get_karma(u, g).karma' = get_karma(u, g).karma + n
                   /\ \E t \in task' : /\ t.op = "give" /\ t.actor = a
                                       /\ t.user_id = u /\ t.pc = "history"]_vars

\* a second give, 59 seconds after the first was recorded, was refused with
\* one second remaining
C7_Witness ==
    /\ response.kind = "cooldown"
    /\ response.remaining = 1
    /\ \E p \in Pairs : p[1] # response.to /\ CallsFor(calls, p) # {}

\* C8: a give or remove refused by the cooldown gate changes no state: karma,
\* history and the rest of the database are as before, and the actor's recorded
\* time is not refreshed.
C8_CooldownRejectNoChange ==
    [][\A a \in Users, u \in Users, g \in Guilds, n \in Amounts, r \in Reasons :
          ((karma_give(a, u, g, n, r) \/ karma_remove(a, u, g, n, r))
             /\ u # a /\ Truthy(check_cooldown(a))) =>
              /\ response'.kind = "cooldown"
              /\ UNCHANGED <<karma, karma_history, kudo_boards, seq, committed,
                             cooldowns, calls, logged>>]_vars

\* a command was refused by the gate in the very second the actor's last
\* command was recorded
C8_Witness ==
    /\ response.kind = "cooldown"
    /\ response.remaining = COOLDOWN_SECONDS
    /\ cooldowns[response.to] = now

\* rows is ordered by karma descending and, among equal karma, by user id ascending
OrderedWithTieBreak(rows) ==
    \A i \in 1 .. (Len(rows) - 1) :
        \/ rows[i].karma > rows[i + 1].karma
        \/ rows[i].karma = rows[i + 1].karma /\ rows[i].user_id < rows[i + 1].user_id

\* C9: get_leaderboard(guild, limit) returns only records of that guild, at
\* most limit of them, ordered by karma descending with equal karma ordered by
\* user id ascending (stated as the claim has it: it fails on a tie, which
\* ORDER BY karma DESC alone leaves in an order of the engine's choosing).
C9_LeaderboardOrder ==
    response.kind = "leaderboard" =>
        /\ Len(response.rows) <= response.remaining
        /\ \A i \in 1 .. Len(response.rows) :
              /\ <<response.rows[i].user_id, response.karma>> \in DOMAIN karma
              /\ response.rows[i].karma =
                    karma[<<response.rows[i].user_id, response.karma>>].karma
        /\ OrderedWithTieBreak(response.rows)

\* C10: an admin_set of user u to V that ran with no other operation since it
\* started leaves get_karma(u) = V as soon as its update has run, and has then
\* appended exactly one history row, for u, whose change is V minus the karma
\* u had before.
C10_AdminSetRoundTrip ==
    \A t \in task :
        (t.op = "set" /\ t.solo /\ t.pc \in {"history", "commit", "return"}) =>
            /\ get_karma(t.user_id, t.guild_id).karma = t.amount
            /\ t.pc \in {"commit", "return"} =>
                  /\ seq = t.seq0 + 1
                  /\ Len(karma_history) > 0
                  /\ LET row == karma_history[Len(karma_history)]
                     IN  /\ row.id = seq
                         /\ row.user_id = t.user_id
                         /\ row.guild_id = t.guild_id
                         /\ row.change = t.amount - t.before

\* an undisturbed admin_set has completed on a user who had karma, to another value
C10_Witness ==
    \E t \in task :
        /\ t.op = "set" /\ t.solo /\ t.pc = "return"
        /\ t.before # 0 /\ t.amount # t.before /\ t.amount # 0

\* the pair's whole record is one give of a points with a reason, logged and
\* not purged
GaveOnce(user_id, guild_id, a, r) ==
    /\ a > 0
    /\ CallsFor(calls, <<user_id, guild_id>>) # {}
    /\ \A c \in CallsFor(calls, <<user_id, guild_id>>) : c.delta = a
    /\ Cardinality(CallsFor(calls, <<user_id, guild_id>>)) = 1
    /\ Cardinality(LoggedFor(logged, <<user_id, guild_id>>)) = 1
    /\ \A l \in LoggedFor(logged, <<user_id, guild_id>>) :
            /\ l.row.change = a
            /\ l.row.reason = r
            /\ \E i \in DOMAIN karma_history : karma_history[i] = l.row

Expired == {karma_history[i] : i \in {j \in DOMAIN karma_history :
                now - karma_history[j].timestamp > RETENTION_SECONDS}}

\* the rows of a sequence, as a set
Rows(h) == {h[i] : i \in DOMAIN h}

\* C12: a run of the purge removes exactly the karma_history rows older than
\* the 30-day cutoff, keeps every other row (in its place), and leaves every
\* row of the karma table, points and last_updated, as it was.
C12_PurgeExact ==
    [][CleanupDelete =>
          /\ karma' = karma
          /\ Rows(karma_history') = Rows(karma_history) \ Expired
          /\ Len(karma_history') = Cardinality(Rows(karma_history) \ Expired)
          /\ \A i, j \in DOMAIN karma_history' :
                i < j => karma_history'[i].id < karma_history'[j].id]_vars

\* a purge has removed a row older than the window and kept a newer one, and
\* the karma of both is in the table
C12_Witness ==
    /\ cleanup = "commit"
    /\ Cardinality(logged) = 2
    /\ Len(karma_history) = 1
    /\ karma_history[1].timestamp = now
    /\ \E l \in logged : now - l.row.timestamp = RETENTION_SECONDS + 1
    /\ \A l \in logged : get_karma(l.row.user_id, l.row.guild_id).karma # 0

\* C20: a purge run that fails with a store error does not stop the schedule:
\* the loop is left waiting for its next interval, so that a later run
\* executes (stated as the claim has it: it fails, because the exception ends
\* the loop and no later run ever starts).
C20_PurgeRetried ==
    [][(CleanupDeleteFails \/ CleanupCommitFails) => cleanup' = "idle"]_vars

\* C13 as claimed: every reaction with a recognized emoji adds 1 to the
\* message author's karma, whatever the cooldown state and whoever reacts, the
\* author included.
C13_ReactionUnconditional ==
    [][\A a \in Users, u \in Users, g \in Guilds :
          on_raw_reaction_add(TRUE, a, u, g) =>
              get_karma(u, g).karma' = get_karma(u, g).karma + 1]_vars

\* C13 as amended: a reaction with a recognized emoji by a user other than the
\* message author adds 1 to the author's karma and starts its history entry,
\* whatever the cooldown state of reactor and author; a reaction by the author
\* on their own message changes no karma and starts no update.
C13_ReactionFromOthers ==
    [][\A a \in Users, u \in Users, g \in Guilds :
          on_raw_reaction_add(TRUE, a, u, g) =>
              IF a # u
              THEN /\ get_karma(u, g).karma' = get_karma(u, g).karma + 1
                   /\ \E t \in task' : /\ t.op = "react" /\ t.pc = "history"
                                       /\ t.user_id = u /\ t.guild_id = g
                                       /\ t.delta = 1
                   /\ cooldowns' = cooldowns
              ELSE UNCHANGED <<karma, karma_history, calls, logged, cooldowns>>]_vars

\* a user inside their cooldown window reacted to another user's message and
\* the grant was applied
C13_Witness ==
    \E t \in task :
        /\ t.op = "react" /\ t.pc = "history"
        /\ t.actor \in DOMAIN cooldowns
        /\ now - cooldowns[t.actor] < COOLDOWN_SECONDS
        /\ get_karma(t.user_id, t.guild_id).karma = t.before + 1

\* the content begins with +rep, !rep or /rep
BeginsWithRep(content) ==
    /\ Len(content) >= 4
    /\ content[1] \in {"+", "!", "/"}
    /\ <<content[2], content[3], content[4]>> = <<"r", "e", "p">>

\* C14: in a channel with a board, a message of a non-bot sender that does not
\* begin with +rep, !rep or /rep is deleted before the notice is attempted and,
\* when the handler has returned, has been deleted and its notice attempted; a
\* refused notice lets the handler return normally; no message of a board
\* channel reaches command processing.  In a channel without a board no
\* message is deleted, and the message of a non-bot sender goes to command
\* processing (a bot's message is dropped before the lookup).
C14_BoardPolicy ==
    \A i \in DOMAIN msgs :
        LET m == msgs[i]
        IN  /\ (m.board /\ ~m.bot /\ ~BeginsWithRep(m.content)) =>
                    /\ m.pc \in {"delete", "notify", "done", "raised"}
                    /\ m.pc \in {"notify", "done", "raised"} => m.deleted
                    /\ m.pc = "done" => m.notice \in {"sent", "refused"}
            /\ m.notice = "refused" => m.pc = "done"
            /\ m.board => ~m.processed /\ m.pc # "process"
            /\ ~m.board =>
                    /\ ~m.deleted /\ m.notice = "none"
                    /\ ~m.bot => m.pc \in {"process", "done"}
                    /\ (~m.bot /\ m.pc = "done") => m.processed

\* in the board channel a message was deleted and its notice refused; a
\* message of a channel without a board went to command processing
C14_Witness ==
    /\ \E i \in DOMAIN msgs :
            /\ msgs[i].board /\ msgs[i].deleted
            /\ msgs[i].notice = "refused" /\ msgs[i].pc = "done"
    /\ \E i \in DOMAIN msgs :
            ~msgs[i].board /\ msgs[i].processed

\* C15: a reaction grant sends the level-up notice if and only if the level of
\* the new total exceeds the level of the new total minus one (stated as the
\* claim has it: it fails, because the handler takes new_level - 1 for the old
\* level and notifies on every reaction that brings the total above 1).
C15_LevelUpIffCrossing ==
    [][\A t \in task :
          ReactionReturn(t) =>
              ((response'.kind = "levelup") <=>
                  (calculate_level(t.new_karma) > calculate_level(t.new_karma - 1)))]_vars

\* C16: no two give/remove handlers of one actor pass check_cooldown and apply
\* their deltas within one cooldown window.  A give/remove handler in flight
\* has passed the gate and applied its delta, and the clock stands still while
\* a handler is in flight, so two of one actor in flight are two effects in
\* the same second (stated as the claim has it: it fails, because the time is
\* recorded only after update_karma has returned).
C16_OneEffectPerWindow ==
    \A t1 \in task, t2 \in task :
        (/\ t1.op \in {"give", "remove"} /\ t2.op \in {"give", "remove"}
         /\ t1.actor = t2.actor) => t1 = t2

\* C17: the karma of the pair right after admin set's write is the value set,
\* whatever ran between the handler's start and its write (stated as the claim
\* has it: it fails, because the handler reads the total, computes the delta
\* itself and adds it in a later statement).
C17_AdminSetAtomic ==
    [][\A t \in task :
          AdminSetUpdate(t) => get_karma(t.user_id, t.guild_id).karma' = t.amount]_vars

\* the user is inside the cooldown window their own last give/remove opened
InCooldown(u) == u \in DOMAIN cooldowns /\ now - cooldowns[u] < COOLDOWN_SECONDS

\* C18: the cooldown map changes only when a give/remove returns, and then
\* only in the acting user's entry, which becomes the current time; every
\* other step, admin set and reaction grants with their updates included,
\* leaves it as it was.  Admin set and reaction grants go ahead whatever the
\* map holds, and a give by a user with no entry of their own passes the gate
\* however often that user was the target of a grant.
C18_CooldownKeyedByActor ==
    /\ [][cooldowns' # cooldowns =>
            \E t \in task :
                /\ GiveOrRemoveReturn(t)
                /\ t.actor # t.user_id
                /\ DOMAIN cooldowns' = DOMAIN cooldowns \cup {t.actor}
                /\ cooldowns'[t.actor] = now
                /\ \A u \in DOMAIN cooldowns \ {t.actor} :
                        cooldowns'[u] = cooldowns[u]]_vars
    /\ [][\A a \in Users, u \in Users, g \in Guilds :
            /\ (on_raw_reaction_add(TRUE, a, u, g) /\ a # u) =>
                    get_karma(u, g).karma' = get_karma(u, g).karma + 1
            /\ \A v \in SetValues, r \in SetReasons :
                    (CanStart /\ InCooldown(u)) => ENABLED admin_set(u, g, v, r)
            /\ \A n \in Amounts, r \in Reasons :
                    (karma_give(a, u, g, n, r) /\ a # u /\ a \notin DOMAIN cooldowns) =>
                        get_karma(u, g).karma' = get_karma(u, g).karma + n]_vars

\* a user who had just been given karma, and had never given any, gave karma
\* while the first giver was inside the cooldown window
C18_Witness ==
    /\ \E t \in task :
            /\ t.op = "give" /\ t.pc = "history"
            /\ t.actor \notin DOMAIN cooldowns
            /\ t.user_id \in DOMAIN cooldowns
            /\ CallsFor(calls, <<t.actor, t.guild_id>>) # {}
    /\ \A u \in DOMAIN cooldowns : InCooldown(u)

\* the entries of a pair's rows, the row appended last first, at most limit
MostRecentFirst(user_id, guild_id, limit) ==
    LET s == CHOOSE q \in Perms(HistoryOf(user_id, guild_id)) :
                \A i \in 1 .. (Len(q) - 1) : q[i].id > q[i + 1].id
    IN  [i \in 1 .. Min(limit, Len(s)) |-> HistoryEntry(s[i])]

\* C19: get_history returns at most limit entries, of the pair only, the one
\* appended later before the one appended earlier, also when both were
\* appended in the same second (stated as the claim has it: it fails for rows
\* of one second, which ORDER BY timestamp DESC leaves in an order of the
\* engine's choosing).
C19_HistoryMostRecentFirst ==
    [][\A t \in task :
          CheckHistory(t) =>
              response'.rows = MostRecentFirst(t.user_id, t.guild_id, HistoryLimit)]_vars

\* C21: in a board channel with threshold m, a message that begins with +rep,
\* !rep or /rep from a non-bot sender whose karma in the board's guild is below
\* m is rejected as a message without a prefix is (deleted, notice attempted),
\* and one from a sender with karma m or more is let stand (stated as the
\* claim has it: it fails, because on_message reads min_karma and never
\* compares it with anything).
C21_MinKarmaEnforced ==
    \A i \in DOMAIN msgs :
        LET m == msgs[i]
        IN  (m.board /\ ~m.bot /\ BeginsWithRep(m.content)) =>
                IF m.sender_karma < m.min_karma
                THEN /\ m.pc \in {"delete", "notify", "done", "raised"}
                     /\ m.pc \in {"notify", "done", "raised"} => m.deleted
                     /\ m.pc = "done" => m.notice \in {"sent", "refused"}
                ELSE ~m.deleted /\ m.pc = "done" /\ m.notice = "none"

====
